---- MODULE Spec2Model ----
\* Model of OWDLDriver (onedocker/onedocker_lib/service/owdl_driver.py):
\* one driver instance owning one OWDLWorkflowInstance, its operations
\* start / next / get_status / cancel_state / cancel_workflow / retry, and the
\* container backend (OneDockerService) as an opaque collaborator whose
\* answers and failures are nondeterministic inputs.
EXTENDS Integers, Sequences, FiniteSets, TLC

\* ---------------------------------------------------------------- bounds
\* longest StateInstance sequence explored: caps the append of _run_state,
\* a state execution that raises appends nothing and is never cut
MaxInstances == 4

\* longest container list given to _get_state_status on its own
MaxContainers == 3

\* longest StateInstance sequence of an instance read from the repository
MaxStored == 2

\* ---------------------------------------------------------------- values
WorkflowStatus == {"CREATED", "STARTED", "COMPLETED", "FAILED", "CANCELLED"}
StateStatus == {"STARTED", "COMPLETED", "FAILED", "CANCELLED"}
ContainerInstanceStatus == {"UNKNOWN", "STARTED", "COMPLETED", "FAILED"}

\* kinds of OWDLRuntimeError raised by the driver, told apart by the raise
\* site; "MissingRepository" is the constructor's 'No repo provided';
\* "BackendError" is an exception propagated from OneDockerService
Errors == {"None", "MissingRepository", "InvalidTransition", "NoStateStarted",
           "RetryLimitExceeded", "InvalidArguments", "BackendError"}

\* Workflow definitions the driver is constructed with.  A state carries its
\* base argument list, retry_count, next_ ("None" when absent) and end flag.
ChainWorkflow ==
  [starts_at |-> "A",
   states |-> [A |-> [cmd_args_list |-> <<"a1">>, retry_count |-> 1,
                      next_ |-> "B", end |-> FALSE],
               B |-> [cmd_args_list |-> <<"b1", "b2">>, retry_count |-> 0,
                      next_ |-> "None", end |-> TRUE]]]

CycleWorkflow ==
  [starts_at |-> "A",
   states |-> [A |-> [cmd_args_list |-> <<"a1">>, retry_count |-> 2,
                      next_ |-> "B", end |-> FALSE],
               B |-> [cmd_args_list |-> <<"b1">>, retry_count |-> 1,
                      next_ |-> "A", end |-> FALSE]]]

NoNextWorkflow ==
  [starts_at |-> "A",
   states |-> [A |-> [cmd_args_list |-> <<>>, retry_count |-> 0,
                      next_ |-> "None", end |-> FALSE],
               B |-> [cmd_args_list |-> <<"b1">>, retry_count |-> 0,
                      next_ |-> "None", end |-> TRUE]]]

Workflows == {ChainWorkflow, CycleWorkflow, NoNextWorkflow}

StateIds == {"A", "B"}

\* per-invocation argument overrides; <<>> stands for both None and []
ArgsChoices == {<<>>, <<"x">>, <<"x", "y">>}

VARIABLES
  owdl_workflow,    \* the WorkflowDefinition of this run
  status,           \* owdl_workflow_instance.status
  state_instances,  \* owdl_workflow_instance.state_instances
  n_starts,         \* successful backend start_containers calls so far
  via_other,        \* definitions re-attempted by start()/next(), not retry()
  retried_failed,   \* a retry() succeeded while the workflow was FAILED
  op,               \* the last driver operation and its inputs
  err,              \* how the last operation ended ("None" = returned)
  calls,            \* backend calls made by the last operation, in order
  pre,              \* status and state_instances before the last operation
  agg_in,           \* a container list given to _get_state_status on its own
  agg_out           \* the StateStatus it returned ("NONE" before the call)

vars == <<owdl_workflow, status, state_instances, n_starts, via_other,
          retried_failed, op, err, calls, pre, agg_in, agg_out>>

\* ---------------------------------------------------------------- helpers
Last(s) == s[Len(s)]

SetLast(s, x) == [s EXCEPT ![Len(s)] = x]

RECURSIVE CountState(_, _)
CountState(insts, s) ==
  IF insts = <<>> THEN 0
  ELSE (IF Last(insts).owdl_state = s THEN 1 ELSE 0)
       + CountState(SubSeq(insts, 1, Len(insts) - 1), s)

\* _get_retry_num: number of existing instances of the same state
get_retry_num_off_by_one(insts, s) == CountState(insts, s) + 1

get_retry_num(insts, s) == CountState(insts, s)

ContainerIds(containers) ==
  [i \in 1..Len(containers) |-> containers[i].instance_id]

\* _get_state_status
get_state_status_first_decides(containers) ==
  IF containers = <<>> THEN "COMPLETED"
  ELSE IF containers[1].status = "FAILED" THEN "FAILED"
  ELSE IF containers[1].status \in {"STARTED", "UNKNOWN"} THEN "STARTED"
  ELSE IF \E i \in 1..Len(containers) : containers[i].status = "FAILED"
       THEN "FAILED"
  ELSE IF \E i \in 1..Len(containers) :
            containers[i].status \in {"STARTED", "UNKNOWN"}
       THEN "STARTED" ELSE "COMPLETED"

get_state_status_ignore_failed(containers) ==
  IF \E i \in 1..Len(containers) : containers[i].status \in {"STARTED", "UNKNOWN"}
  THEN "STARTED" ELSE "COMPLETED"

RECURSIVE StateStatusLoop(_, _, _)
StateStatusLoop(containers, i, has_started) ==
  IF i > Len(containers)
  THEN (IF has_started THEN "STARTED" ELSE "COMPLETED")
  ELSE IF containers[i].status \in {"STARTED", "UNKNOWN"}
       THEN StateStatusLoop(containers, i + 1, TRUE)
       ELSE IF containers[i].status = "FAILED"
            THEN "FAILED"
            ELSE StateStatusLoop(containers, i + 1, has_started)

get_state_status(containers) == StateStatusLoop(containers, 1, FALSE)

\* _get_workflow_status
get_workflow_status_resets(wst, st) ==
  IF st = "FAILED" THEN "FAILED"
  ELSE IF st = "CANCELLED" THEN "CANCELLED"
  ELSE "STARTED"

get_workflow_status(wst, st) ==
  IF st = "FAILED" THEN "FAILED"
  ELSE IF st = "CANCELLED" THEN "CANCELLED"
  ELSE wst

\* the command list handed to the backend; a command is the sequence of its
\* pieces, so the base fragment "a1" is <<"a1">> and the zip of fragments and
\* overrides, f"{old_arg} {new_arg}", is <<old_arg, " ", new_arg>>
MergeArgs(cmd_args_list, args) ==
  IF args = <<>>
  THEN [i \in 1..Len(cmd_args_list) |-> <<cmd_args_list[i]>>]
  ELSE [i \in 1..Len(cmd_args_list) |-> <<cmd_args_list[i], " ", args[i]>>]

\* the containers start_containers returns: one per command, fresh ids
StartedContainers(n, k) ==
  [j \in 1..k |-> [instance_id |-> <<n, j>>, status |-> "STARTED"]]

\* the containers get_containers returns for ids: same order, reported status
QueriedContainers(ids, resp) ==
  [j \in 1..Len(ids) |-> [instance_id |-> ids[j], status |-> resp[j]]]

Responses(k) == [1..k -> ContainerInstanceStatus]

\* guards of the operations
start_guard_fails(wst) == wst # "CREATED"

start_status_after_keep(wst) == wst

start_status_after(wst) == IF wst = "CREATED" THEN "STARTED" ELSE wst

next_guard_inverted(wst, st) == wst = "STARTED" /\ st = "COMPLETED"

next_guard_state_only(wst, st) == st # "COMPLETED"

next_guard_workflow_only(wst, st) == wst # "STARTED"

next_guard_fails(wst, st) == wst # "STARTED" \/ st # "COMPLETED"

cancel_workflow_guard_fails(wst) == wst # "STARTED"

cancel_state_guard_never(st) == FALSE

cancel_state_guard_fails(st) == st # "STARTED"

\* the end-of-workflow check of next()
workflow_ends_never(def) == FALSE

workflow_ends(def) == def.end

\* the state next() executes: next_ when there is one, else curr_state again
next_target_stays(next_, curr_state) == curr_state

next_target(next_, curr_state) ==
  IF next_ # "None" THEN next_ ELSE curr_state

retry_workflow_guard_allows_cancelled(wst) == wst \in {"CREATED", "COMPLETED"}

retry_workflow_guard_fails(wst) == wst \in {"CREATED", "CANCELLED", "COMPLETED"}

retry_limit_off_by_one(retry_num, retry_count) == retry_num > retry_count

retry_limit_reached(retry_num, retry_count) == retry_num >= retry_count

\* status written on the current instance by retry() before _run_state
retry_prior_status_keep(st) == st

retry_prior_status(st) == "STARTED"

\* _run_state on the sequence insts: the error raised (or "None"), the
\* backend calls made, and the resulting sequence
run_state_appends_before_start(insts, s, args, ok, n) ==
  LET base == owdl_workflow.states[s].cmd_args_list
      cmd  == MergeArgs(base, args)
      call == <<[name |-> "start_containers", arg |-> cmd]>>
      new  == Append(insts,
                [owdl_state |-> s,
                 containers |-> StartedContainers(n + 1, Len(cmd)),
                 status     |-> "STARTED",
                 retry_num  |-> get_retry_num(insts, s)])
  IN  IF args # <<>> /\ Len(args) # Len(base)
      THEN [err |-> "InvalidArguments", calls |-> <<>>, insts |-> insts,
            started |-> 0]
      ELSE IF ~ok
      THEN [err |-> "BackendError", calls |-> call, insts |-> new,
            started |-> 0]
      ELSE [err |-> "None", calls |-> call, insts |-> new, started |-> 1]

run_state(insts, s, args, ok, n) ==
  LET base == owdl_workflow.states[s].cmd_args_list
      cmd  == MergeArgs(base, args)
      call == <<[name |-> "start_containers", arg |-> cmd]>>
  IN  IF args # <<>> /\ Len(args) # Len(base)
      THEN [err |-> "InvalidArguments", calls |-> <<>>, insts |-> insts,
            started |-> 0]
      ELSE IF ~ok
      THEN [err |-> "BackendError", calls |-> call, insts |-> insts,
            started |-> 0]
      ELSE [err |-> "None", calls |-> call,
            insts |-> Append(insts,
                        [owdl_state |-> s,
                         containers |-> StartedContainers(n + 1, Len(cmd)),
                         status     |-> "STARTED",
                         retry_num  |-> get_retry_num(insts, s)]),
            started |-> 1]

Snapshot == [status |-> status, state_instances |-> state_instances]

\* ---------------------------------------------------------------- Init
\* the container lists the i-th record of a stored instance can hold when its
\* status is st: k containers with the ids start_containers gave them and the
\* statuses last reported.  get_status() writes the aggregate of the answer on
\* the record, cancel_state() and retry() rewrite the record's status and
\* leave its containers: a CANCELLED record holds what a STARTED one held, and
\* a STARTED record holds FAILED containers when retry() marked it (retryable)
StoredContainers(i, k, st, retryable) ==
  {c \in {QueriedContainers([j \in 1..k |-> <<i, j>>], resp) :
            resp \in Responses(k)} :
     LET agg == get_state_status(c)
     IN  IF st = "COMPLETED" THEN agg = "COMPLETED"
         ELSE IF st = "FAILED" THEN agg = "FAILED"
         ELSE IF st = "CANCELLED" THEN agg = "STARTED" \/ k = 0
         ELSE agg = "STARTED" \/ k = 0 \/ (agg = "FAILED" /\ retryable)}

\* the records a stored instance can hold after insts: the definition, any
\* status, retry number as _get_retry_num gives it, one container per base
\* command
StoredRecords(wf, insts) ==
  UNION {LET n == get_retry_num(insts, s)
             d == wf.states[s]
         IN  {[owdl_state |-> s, containers |-> c, status |-> st,
               retry_num |-> n] :
                c \in StoredContainers(Len(insts) + 1, Len(d.cmd_args_list), st,
                                       ~retry_limit_reached(n, d.retry_count))} :
           s \in StateIds, st \in StateStatus}

\* record i was appended by next(): its predecessor was COMPLETED, not
\* terminal, and names it as the state to execute
StoredByNext(wf, insts, i) ==
  LET p == insts[i - 1]
      d == wf.states[p.owdl_state]
  IN  /\ p.status = "COMPLETED"
      /\ ~d.end
      /\ insts[i].owdl_state = next_target(d.next_, p.owdl_state)

\* record i was appended by retry(): same definition as its predecessor,
\* which was within its retry budget and is not COMPLETED
StoredByRetry(wf, insts, i) ==
  LET p == insts[i - 1]
      d == wf.states[p.owdl_state]
  IN  /\ p.status # "COMPLETED"
      /\ insts[i].owdl_state = p.owdl_state
      /\ ~retry_limit_reached(p.retry_num, d.retry_count)

\* the stored sequences of at most n records: the first record executes
\* starts_at, each later one was appended by next() or by retry()
RECURSIVE StoredUpTo(_, _)
StoredUpTo(wf, n) ==
  IF n = 0 THEN {<<>>}
  ELSE LET shorter == StoredUpTo(wf, n - 1)
       IN  shorter \cup
           {insts \in UNION {{Append(pfx, r) : r \in StoredRecords(wf, pfx)} :
                               pfx \in {q \in shorter : Len(q) = n - 1}} :
              IF Len(insts) = 1 THEN insts[1].owdl_state = wf.starts_at
              ELSE \/ StoredByNext(wf, insts, Len(insts))
                   \/ StoredByRetry(wf, insts, Len(insts))}

\* the sequences a driver of wf can have left in the repository
StoredSequences(wf) == StoredUpTo(wf, MaxStored)

\* some record of insts was FAILED: it is FAILED, or holds a FAILED container
StoredFailure(insts) ==
  \E i \in 1..Len(insts) :
    insts[i].status = "FAILED" \/ get_state_status(insts[i].containers) = "FAILED"

\* the workflow statuses a driver can have left with the sequence insts
\* (get_status() writes FAILED on the record and on the workflow together,
\* and nothing takes the workflow out of FAILED)
StoredStatuses(wf, insts) ==
  IF insts = <<>> THEN {"CREATED"}
  ELSE IF StoredFailure(insts) THEN {"FAILED"}
  ELSE {"STARTED", "FAILED"}
       \cup (IF Last(insts).status = "COMPLETED"
                /\ wf.states[Last(insts).owdl_state].end
             THEN {"COMPLETED"} ELSE {})
       \cup (IF Last(insts).status = "CANCELLED" THEN {"CANCELLED"} ELSE {})

\* the definitions of insts that next() executed again
StoredViaOther(wf, insts) ==
  {insts[i].owdl_state : i \in
     {k \in 2..Len(insts) :
        /\ StoredByNext(wf, insts, k)
        /\ \E j \in 1..(k - 1) : insts[j].owdl_state = insts[k].owdl_state}}

\* a retry() of the driver that left insts succeeded while the workflow was
\* FAILED: a record appended by retry() follows one that was FAILED
StoredRetriedFailed(wf, insts) ==
  \E i \in 2..Len(insts) :
    /\ StoredByRetry(wf, insts, i)
    /\ StoredFailure(<<insts[i - 1]>>)

\* OWDLDriver.__init__ without a repository: raises, no driver exists
InitMissingRepo ==
  /\ owdl_workflow \in Workflows
  /\ status = "CREATED"
  /\ state_instances = <<>>
  /\ n_starts = 0
  /\ via_other = {}
  /\ retried_failed = FALSE
  /\ op = [name |-> "init", args |-> <<>>, ok |-> FALSE, resp |-> <<>>]
  /\ err = "MissingRepository"
  /\ calls = <<>>
  /\ pre = [status |-> "CREATED", state_instances |-> <<>>]
  /\ agg_in = <<>>
  /\ agg_out = "NONE"

\* OWDLDriver.__init__ with a new workflow definition
InitNew ==
  /\ owdl_workflow \in Workflows
  /\ status = "CREATED"
  /\ state_instances = <<>>
  /\ n_starts = 0
  /\ via_other = {}
  /\ retried_failed = FALSE
  /\ op = [name |-> "init", args |-> <<>>, ok |-> TRUE, resp |-> <<>>]
  /\ err = "None"
  /\ calls = <<>>
  /\ pre = [status |-> "CREATED", state_instances |-> <<>>]
  /\ agg_in = <<>>
  /\ agg_out = "NONE"

\* OWDLDriver.__init__ without a workflow definition: the driver adopts the
\* instance repo.read(instance_id) returns, unchanged.  The stored instances
\* are those of at most MaxStored records that an earlier driver of the same
\* workflow left, with that driver's history, and the instances that obey the
\* same relations between neighbouring records without being left by one
InitResumed ==
  /\ owdl_workflow \in Workflows
  /\ state_instances \in StoredSequences(owdl_workflow)
  /\ status \in StoredStatuses(owdl_workflow, state_instances)
  /\ n_starts = Len(state_instances)
  /\ via_other = StoredViaOther(owdl_workflow, state_instances)
  /\ retried_failed = StoredRetriedFailed(owdl_workflow, state_instances)
  /\ op = [name |-> "init", args |-> <<>>, ok |-> TRUE, resp |-> <<>>]
  /\ err = "None"
  /\ calls = <<>>
  /\ pre = [status |-> status, state_instances |-> state_instances]
  /\ agg_in = <<>>
  /\ agg_out = "NONE"

Init == InitMissingRepo \/ InitNew \/ InitResumed

\* a driver object exists: the constructor did not raise
Constructed == ~(op.name = "init" /\ err = "MissingRepository")

\* the record of an operation and its inputs
Op(name, args, ok, resp) == [name |-> name, args |-> args, ok |-> ok, resp |-> resp]

\* ---------------------------------------------------------------- start
\* OWDLDriver.start(); ok: whether the backend start call succeeds
Start(ok) ==
  /\ op' = Op("start", <<>>, ok, <<>>)
  /\ pre' = Snapshot
  /\ Constructed
  /\ UNCHANGED <<agg_in, agg_out>>
  /\ UNCHANGED <<owdl_workflow, retried_failed>>
  /\ IF start_guard_fails(status)
     THEN /\ err' = "InvalidTransition"
          /\ calls' = <<>>
          /\ UNCHANGED <<status, state_instances, n_starts, via_other>>
     ELSE LET s == owdl_workflow.starts_at
              r == run_state(state_instances, s, <<>>, ok, n_starts)
          IN  /\ r.err = "None" => Len(state_instances) < MaxInstances
              /\ err' = r.err
              /\ calls' = r.calls
              /\ state_instances' = r.insts
              /\ n_starts' = n_starts + r.started
              /\ via_other' = IF r.err = "None" /\ CountState(state_instances, s) > 0
                              THEN via_other \cup {s} ELSE via_other
              /\ status' = IF r.err = "None" THEN start_status_after(status)
                           ELSE status

\* ---------------------------------------------------------------- next
\* OWDLDriver.next(args)
NextState(args, ok) ==
  /\ op' = Op("next", args, ok, <<>>)
  /\ pre' = Snapshot
  /\ Constructed
  /\ UNCHANGED <<agg_in, agg_out>>
  /\ UNCHANGED <<owdl_workflow, retried_failed>>
  /\ IF state_instances = <<>>
     THEN /\ err' = "NoStateStarted"
          /\ calls' = <<>>
          /\ UNCHANGED <<status, state_instances, n_starts, via_other>>
     ELSE LET cur == Last(state_instances)
              def == owdl_workflow.states[cur.owdl_state]
          IN  IF next_guard_fails(status, cur.status)
              THEN /\ err' = "InvalidTransition"
                   /\ calls' = <<>>
                   /\ UNCHANGED <<status, state_instances, n_starts, via_other>>
              ELSE IF workflow_ends(def)
              THEN /\ status' = "COMPLETED"
                   /\ err' = "None"
                   /\ calls' = <<>>
                   /\ UNCHANGED <<state_instances, n_starts, via_other>>
              ELSE LET s == next_target(def.next_, cur.owdl_state)
                       r == run_state(state_instances, s, args, ok, n_starts)
                   IN  /\ r.err = "None" => Len(state_instances) < MaxInstances
                       /\ err' = r.err
                       /\ calls' = r.calls
                       /\ state_instances' = r.insts
                       /\ n_starts' = n_starts + r.started
                       /\ via_other' =
                            IF r.err = "None" /\ CountState(state_instances, s) > 0
                            THEN via_other \cup {s} ELSE via_other
                       /\ UNCHANGED status

\* ---------------------------------------------------------------- get_status
\* OWDLDriver.get_status(); resp: the container statuses the backend reports
GetStatus(resp, ok) ==
  /\ op' = Op("get_status", <<>>, ok, resp)
  /\ pre' = Snapshot
  /\ Constructed
  /\ UNCHANGED <<agg_in, agg_out>>
  /\ UNCHANGED <<owdl_workflow, n_starts, via_other, retried_failed>>
  /\ IF status \in {"CREATED", "COMPLETED"}
     THEN /\ err' = "None"
          /\ calls' = <<>>
          /\ UNCHANGED <<status, state_instances>>
     ELSE IF state_instances = <<>>
     THEN /\ err' = "NoStateStarted"
          /\ calls' = <<>>
          /\ UNCHANGED <<status, state_instances>>
     ELSE LET cur == Last(state_instances)
              ids == ContainerIds(cur.containers)
              got == QueriedContainers(ids, resp)
              st  == get_state_status(got)
          IN  IF cur.status = "CANCELLED"
              THEN /\ err' = "None"
                   /\ calls' = <<>>
                   /\ UNCHANGED <<status, state_instances>>
              ELSE /\ calls' = <<[name |-> "get_containers", arg |-> ids]>>
                   /\ IF ~ok
                      THEN /\ err' = "BackendError"
                           /\ UNCHANGED <<status, state_instances>>
                      ELSE /\ err' = "None"
                           /\ state_instances' =
                                SetLast(state_instances,
                                  [cur EXCEPT !.containers = got, !.status = st])
                           /\ status' = get_workflow_status(status, st)

\* ---------------------------------------------------------------- cancel_state
\* the effect of cancel_state() on the current state: the error raised, the
\* backend calls made and the resulting sequence; ok: stop_containers succeeds
cancel_state_without_stop(wst, insts, ok) ==
  IF cancel_workflow_guard_fails(wst)
  THEN [err |-> "InvalidTransition", calls |-> <<>>, insts |-> insts]
  ELSE IF insts = <<>>
  THEN [err |-> "NoStateStarted", calls |-> <<>>, insts |-> insts]
  ELSE LET cur == Last(insts)
       IN  IF cancel_state_guard_fails(cur.status)
           THEN [err |-> "InvalidTransition", calls |-> <<>>, insts |-> insts]
           ELSE [err   |-> "None",
                 calls |-> <<>>,
                 insts |-> SetLast(insts, [cur EXCEPT !.status = "CANCELLED"])]

cancel_state(wst, insts, ok) ==
  IF cancel_workflow_guard_fails(wst)
  THEN [err |-> "InvalidTransition", calls |-> <<>>, insts |-> insts]
  ELSE IF insts = <<>>
  THEN [err |-> "NoStateStarted", calls |-> <<>>, insts |-> insts]
  ELSE LET cur == Last(insts)
       IN  IF cancel_state_guard_fails(cur.status)
           THEN [err |-> "InvalidTransition", calls |-> <<>>, insts |-> insts]
           ELSE [err   |-> IF ok THEN "None" ELSE "BackendError",
                 calls |-> <<[name |-> "stop_containers",
                              arg  |-> ContainerIds(cur.containers)]>>,
                 insts |-> SetLast(insts, [cur EXCEPT !.status = "CANCELLED"])]

\* OWDLDriver.cancel_state()
CancelState(ok) ==
  LET r == cancel_state(status, state_instances, ok)
  IN  /\ op' = Op("cancel_state", <<>>, ok, <<>>)
      /\ pre' = Snapshot
      /\ Constructed
      /\ UNCHANGED <<agg_in, agg_out>>
      /\ err' = r.err
      /\ calls' = r.calls
      /\ state_instances' = r.insts
      /\ UNCHANGED <<owdl_workflow, status, n_starts, via_other, retried_failed>>

\* status after cancel_workflow(), given how its cancel_state() call ended
cancel_workflow_status_always(wst, e) == "CANCELLED"

cancel_workflow_status(wst, e) == IF e = "None" THEN "CANCELLED" ELSE wst

\* OWDLDriver.cancel_workflow()
CancelWorkflow(ok) ==
  LET r == cancel_state(status, state_instances, ok)
  IN  /\ op' = Op("cancel_workflow", <<>>, ok, <<>>)
      /\ pre' = Snapshot
      /\ Constructed
      /\ UNCHANGED <<agg_in, agg_out>>
      /\ err' = r.err
      /\ calls' = r.calls
      /\ state_instances' = r.insts
      /\ status' = cancel_workflow_status(status, r.err)
      /\ UNCHANGED <<owdl_workflow, n_starts, via_other, retried_failed>>

\* ---------------------------------------------------------------- retry
\* OWDLDriver.retry(args)
Retry(args, ok) ==
  /\ op' = Op("retry", args, ok, <<>>)
  /\ pre' = Snapshot
  /\ Constructed
  /\ UNCHANGED <<agg_in, agg_out>>
  /\ UNCHANGED <<owdl_workflow, status, via_other>>
  /\ IF retry_workflow_guard_fails(status)
     THEN /\ err' = "InvalidTransition"
          /\ calls' = <<>>
          /\ UNCHANGED <<state_instances, n_starts, retried_failed>>
     ELSE IF state_instances = <<>>
     THEN /\ err' = "NoStateStarted"
          /\ calls' = <<>>
          /\ UNCHANGED <<state_instances, n_starts, retried_failed>>
     ELSE LET cur == Last(state_instances)
              def == owdl_workflow.states[cur.owdl_state]
          IN  IF retry_limit_reached(cur.retry_num, def.retry_count)
              THEN /\ err' = "RetryLimitExceeded"
                   /\ calls' = <<>>
                   /\ UNCHANGED <<state_instances, n_starts, retried_failed>>
              ELSE IF cur.status \in {"FAILED", "CANCELLED"}
              THEN LET marked == SetLast(state_instances,
                                   [cur EXCEPT !.status = retry_prior_status(cur.status)])
                       r == run_state(marked, cur.owdl_state, args, ok, n_starts)
                   IN  /\ r.err = "None" => Len(state_instances) < MaxInstances
                       /\ err' = r.err
                       /\ calls' = r.calls
                       /\ state_instances' = r.insts
                       /\ n_starts' = n_starts + r.started
                       /\ retried_failed' =
                            (retried_failed \/ (r.err = "None" /\ status = "FAILED"))
              ELSE /\ err' = "None"
                   /\ calls' = <<>>
                   /\ UNCHANGED <<state_instances, n_starts, retried_failed>>

\* ---------------------------------------------------------------- queries
\* the emptiness test of get_current_state_instance()
no_state_instances_below_two(insts) == Len(insts) < 2

no_state_instances(insts) == insts = <<>>

\* OWDLDriver.get_current_state_instance(): fails on an empty sequence,
\* otherwise returns the last record and changes nothing
GetCurrentStateInstance ==
  /\ op' = Op("get_current_state_instance", <<>>, TRUE, <<>>)
  /\ pre' = Snapshot
  /\ Constructed
  /\ UNCHANGED <<agg_in, agg_out>>
  /\ err' = IF no_state_instances(state_instances) THEN "NoStateStarted"
            ELSE "None"
  /\ calls' = <<>>
  /\ UNCHANGED <<owdl_workflow, status, state_instances, n_starts, via_other,
                 retried_failed>>

\* OWDLDriver.is_completed()
is_completed == status = "COMPLETED"

\* ---------------------------------------------------------------- spec
Next ==
  \/ \E ok \in BOOLEAN : Start(ok)
  \/ \E args \in ArgsChoices, ok \in BOOLEAN : NextState(args, ok)
  \/ \E ok \in BOOLEAN :
       \E resp \in Responses(IF state_instances = <<>> THEN 0
                             ELSE Len(Last(state_instances).containers)) :
         GetStatus(resp, ok)
  \/ \E ok \in BOOLEAN : CancelState(ok)
  \/ \E ok \in BOOLEAN : CancelWorkflow(ok)
  \/ \E args \in ArgsChoices, ok \in BOOLEAN : Retry(args, ok)
  \/ GetCurrentStateInstance

Spec == Init /\ [][Next]_vars

TypeOK ==
  /\ owdl_workflow \in Workflows
  /\ status \in WorkflowStatus
  /\ Len(state_instances) <= MaxInstances
  /\ \A i \in 1..Len(state_instances) :
       /\ state_instances[i].owdl_state \in StateIds
       /\ state_instances[i].status \in StateStatus
       /\ state_instances[i].retry_num \in 0..MaxInstances
  /\ err \in Errors

\* ---------------------------------------------------------------- _get_state_status alone
\* container lists of up to MaxContainers containers
ContainerLists ==
  UNION {[1..k -> [instance_id : {<<0, 0>>}, status : ContainerInstanceStatus]] :
           k \in 0..MaxContainers}

InitAgg ==
  /\ owdl_workflow = ChainWorkflow
  /\ status = "CREATED"
  /\ state_instances = <<>>
  /\ n_starts = 0
  /\ via_other = {}
  /\ retried_failed = FALSE
  /\ op = [name |-> "init", args |-> <<>>, ok |-> TRUE, resp |-> <<>>]
  /\ err = "None"
  /\ calls = <<>>
  /\ pre = [status |-> "CREATED", state_instances |-> <<>>]
  /\ agg_in \in ContainerLists
  /\ agg_out = "NONE"

\* one call of _get_state_status(agg_in)
Aggregate ==
  /\ agg_out = "NONE"
  /\ agg_out' = get_state_status(agg_in)
  /\ UNCHANGED <<owdl_workflow, status, state_instances, n_starts, via_other,
                 retried_failed, op, err, calls, pre, agg_in>>

NextAgg == Aggregate

SpecAgg == InitAgg /\ [][NextAgg]_vars

\* ---------------------------------------------------------------- a cooperative run
\* a second chain, entered at B, both states with two containers
ReverseChainWorkflow ==
  [starts_at |-> "B",
   states |-> [A |-> [cmd_args_list |-> <<"a1", "a2">>, retry_count |-> 0,
                      next_ |-> "None", end |-> TRUE],
               B |-> [cmd_args_list |-> <<"b1", "b2">>, retry_count |-> 1,
                      next_ |-> "A", end |-> FALSE]]]

\* acyclic definitions in which every non-terminal state has a next_
AcyclicWorkflows == {ChainWorkflow, ReverseChainWorkflow}

InitLive ==
  /\ owdl_workflow \in AcyclicWorkflows
  /\ status = "CREATED"
  /\ state_instances = <<>>
  /\ n_starts = 0
  /\ via_other = {}
  /\ retried_failed = FALSE
  /\ op = [name |-> "init", args |-> <<>>, ok |-> TRUE, resp |-> <<>>]
  /\ err = "None"
  /\ calls = <<>>
  /\ pre = [status |-> "CREATED", state_instances |-> <<>>]
  /\ agg_in = <<>>
  /\ agg_out = "NONE"

\* the statuses a well-behaved backend may report for the current containers:
\* never FAILED, and a container seen COMPLETED stays COMPLETED
GoodResponses ==
  IF state_instances = <<>> THEN {<<>>}
  ELSE LET cs == Last(state_instances).containers
       IN  {resp \in Responses(Len(cs)) :
              \A j \in 1..Len(cs) :
                /\ resp[j] # "FAILED"
                /\ cs[j].status = "COMPLETED" => resp[j] = "COMPLETED"}

\* get_status() answered by the well-behaved backend
LiveGetStatus == \E resp \in GoodResponses : GetStatus(resp, TRUE)

\* get_status() once all the current containers have completed
GetStatusAllCompleted ==
  \E resp \in GoodResponses :
    /\ \A j \in 1..Len(resp) : resp[j] = "COMPLETED"
    /\ GetStatus(resp, TRUE)

\* the caller: start(), then get_status() and next() without args
NextLive ==
  \/ Start(TRUE)
  \/ LiveGetStatus
  \/ NextState(<<>>, TRUE)

SpecLive ==
  /\ InitLive
  /\ [][NextLive]_vars
  /\ WF_vars(Start(TRUE))
  /\ WF_vars(GetStatusAllCompleted)
  /\ WF_vars(NextState(<<>>, TRUE))

\* ---------------------------------------------------------------- claims
PreLast == Last(pre.state_instances)

PreDef == owdl_workflow.states[PreLast.owdl_state]

NothingChanged ==
  /\ status = pre.status
  /\ state_instances = pre.state_instances
  /\ calls = <<>>

NoStartCall == \A i \in 1..Len(calls) : calls[i].name # "start_containers"

\* C1: start() on a CREATED workflow whose backend start call succeeds leaves
\* exactly one StateInstance, for the starting state, STARTED, retry number 0,
\* and the workflow STARTED.
C1_StartCreatesFirstInstance ==
  (op.name = "start" /\ pre.status = "CREATED" /\ op.ok) =>
    /\ Len(state_instances) = 1
    /\ state_instances[1].owdl_state = owdl_workflow.starts_at
    /\ state_instances[1].status = "STARTED"
    /\ state_instances[1].retry_num = 0
    /\ status = "STARTED"

C1_Witness ==
  /\ op.name = "start" /\ pre.status = "CREATED" /\ op.ok
  /\ Len(state_instances) = 1 /\ status = "STARTED"

NextGuardViolated ==
  /\ op.name = "next"
  /\ \/ pre.status # "STARTED"
     \/ pre.state_instances = <<>>
     \/ PreLast.status # "COMPLETED"

\* C2 (as stated): next() with the workflow not STARTED or the current
\* StateInstance not COMPLETED fails with InvalidTransition and changes
\* nothing, also on a CREATED workflow whose sequence is empty.
C2_NextGuardAlwaysInvalidTransition ==
  NextGuardViolated => (err = "InvalidTransition" /\ NothingChanged)

\* C2 (amended): such a next() fails and changes nothing; the failure is
\* NoStateStarted when the sequence is empty and InvalidTransition otherwise.
C2_NextGuardFails ==
  NextGuardViolated =>
    /\ err = (IF pre.state_instances = <<>> THEN "NoStateStarted"
              ELSE "InvalidTransition")
    /\ NothingChanged

C2_Witness ==
  /\ op.name = "next" /\ pre.status = "STARTED"
  /\ pre.state_instances # <<>> /\ PreLast.status = "STARTED"
  /\ err = "InvalidTransition"

\* C3: next() on a STARTED workflow whose current StateInstance is COMPLETED
\* and terminal sets the workflow COMPLETED, appends nothing and makes no
\* backend start call.
C3_NextOnTerminalCompletes ==
  (/\ op.name = "next" /\ pre.status = "STARTED"
   /\ pre.state_instances # <<>>
   /\ PreLast.status = "COMPLETED" /\ PreDef.end) =>
    /\ status = "COMPLETED"
    /\ state_instances = pre.state_instances
    /\ NoStartCall

C3_Witness ==
  /\ op.name = "next" /\ pre.status = "STARTED"
  /\ pre.state_instances # <<>>
  /\ PreLast.status = "COMPLETED" /\ PreDef.end
  /\ status = "COMPLETED"

\* the two-state scenario: A (next = B) completed, B (terminal) current
ScenarioAB ==
  /\ owdl_workflow = ChainWorkflow
  /\ pre.status = "STARTED"
  /\ Len(pre.state_instances) = 2
  /\ pre.state_instances[1].owdl_state = "A"
  /\ pre.state_instances[1].status = "COMPLETED"
  /\ pre.state_instances[2].owdl_state = "B"

\* get_status() in the scenario, B just started by next(), with the backend
\* reporting B's containers all COMPLETED
ScenarioGetStatusB ==
  /\ ScenarioAB
  /\ pre.state_instances[2].status = "STARTED"
  /\ op.name = "get_status" /\ op.ok
  /\ \A j \in 1..Len(op.resp) : op.resp[j] = "COMPLETED"

\* C4 (as stated): in the two-state scenario the get_status() that sees B's
\* containers COMPLETED sets B COMPLETED and the workflow COMPLETED.
C4_GetStatusCompletesWorkflow ==
  ScenarioGetStatusB =>
    (Last(state_instances).status = "COMPLETED" /\ status = "COMPLETED")

\* C4 (amended): that get_status() sets B COMPLETED and leaves the workflow
\* STARTED; the following next() succeeds, sets the workflow COMPLETED and
\* appends nothing; a next() after that fails with InvalidTransition.
C4_ScenarioEndsByNext ==
  /\ ScenarioGetStatusB =>
       (Last(state_instances).status = "COMPLETED" /\ status = "STARTED")
  /\ (ScenarioAB /\ op.name = "next" /\ PreLast.status = "COMPLETED") =>
       /\ err = "None"
       /\ status = "COMPLETED"
       /\ state_instances = pre.state_instances
  /\ (owdl_workflow = ChainWorkflow /\ op.name = "next"
       /\ pre.status = "COMPLETED") =>
       (err = "InvalidTransition" /\ NothingChanged)

C4_Witness ==
  /\ ScenarioGetStatusB
  /\ status = "STARTED"
  /\ Last(state_instances).status = "COMPLETED"

\* C5 (as stated): a successful retry() on a FAILED or CANCELLED current
\* StateInstance appends one STARTED record of the same definition with
\* retry number one higher and leaves the prior record as it was.
C5_RetryKeepsPriorRecord ==
  (/\ op.name = "retry" /\ err = "None"
   /\ pre.state_instances # <<>>
   /\ PreLast.status \in {"FAILED", "CANCELLED"}) =>
    /\ Len(state_instances) = Len(pre.state_instances) + 1
    /\ Last(state_instances).owdl_state = PreLast.owdl_state
    /\ Last(state_instances).status = "STARTED"
    /\ Last(state_instances).retry_num = PreLast.retry_num + 1
    /\ SubSeq(state_instances, 1, Len(pre.state_instances)) = pre.state_instances

RetryAtLimit ==
  /\ op.name = "retry"
  /\ pre.state_instances # <<>>
  /\ PreLast.retry_num >= PreDef.retry_count

InstancesOf(d) ==
  {i \in 1..Len(state_instances) : state_instances[i].owdl_state = d}

RetryBound ==
  \A d \in StateIds :
    d \notin via_other =>
      Cardinality(InstancesOf(d)) <= owdl_workflow.states[d].retry_count + 1

\* C6 (as stated): retry() fails with RetryLimitExceeded whenever the current
\* retry number is not below retry_count, so a definition re-attempted only by
\* retry() has at most retry_count + 1 records.
C6_RetryLimitAlwaysExceeded ==
  /\ RetryAtLimit => err = "RetryLimitExceeded"
  /\ RetryBound

\* C6 (amended): at the limit retry() fails and appends nothing, with
\* RetryLimitExceeded when the workflow is STARTED or FAILED and with
\* InvalidTransition when it is CANCELLED or COMPLETED; a definition
\* re-attempted only by retry() has at most retry_count + 1 records.
C6_RetryLimit ==
  /\ RetryAtLimit =>
       /\ err = (IF pre.status \in {"CANCELLED", "COMPLETED"}
                 THEN "InvalidTransition" ELSE "RetryLimitExceeded")
       /\ NothingChanged
  /\ RetryBound

C6_Witness ==
  /\ RetryAtLimit /\ err = "RetryLimitExceeded"
  /\ PreLast.retry_num >= 1
  /\ PreLast.owdl_state \notin via_other
  /\ Cardinality(InstancesOf(PreLast.owdl_state)) = PreDef.retry_count + 1

\* C7: every record's retry number is the number of earlier records of the
\* same definition, contiguous or interleaved with other definitions.
C7_RetryNumCountsPriorAttempts ==
  \A i \in 1..Len(state_instances) :
    state_instances[i].retry_num =
      Cardinality({j \in 1..(i - 1) :
                     state_instances[j].owdl_state = state_instances[i].owdl_state})

C7_Witness ==
  /\ Len(state_instances) >= 3
  /\ state_instances[1].owdl_state = "A"
  /\ state_instances[2].owdl_state = "B"
  /\ state_instances[3].owdl_state = "A"
  /\ state_instances[3].retry_num = 1

\* C8 (as stated): after the workflow became FAILED and retry() succeeded,
\* the run is back on the forward path: once the retried attempt is observed
\* COMPLETED, next() is accepted and can carry the workflow to COMPLETED.
C8_RetryReturnsToForwardPath ==
  (/\ retried_failed
   /\ state_instances # <<>>
   /\ Last(state_instances).status = "COMPLETED") =>
    ~next_guard_fails(status, Last(state_instances).status)

GuardViolated ==
  \/ op.name = "start" /\ pre.status # "CREATED"
  \/ /\ op.name = "cancel_state"
     /\ \/ pre.status # "STARTED"
        \/ pre.state_instances # <<>> /\ PreLast.status # "STARTED"
  \/ op.name = "retry" /\ pre.status \in {"CREATED", "CANCELLED", "COMPLETED"}

\* C9: start(), cancel_state() and retry() with a violated status guard fail
\* with InvalidTransition; workflow status, sequence and instance statuses
\* are unchanged and no backend call is made.
C9_GuardsBeforeMutation ==
  GuardViolated => (err = "InvalidTransition" /\ NothingChanged)

C9_Witness ==
  /\ op.name = "cancel_state" /\ pre.status = "STARTED"
  /\ pre.state_instances # <<>> /\ PreLast.status = "COMPLETED"
  /\ err = "InvalidTransition"

\* C10: cancel_workflow() sets the workflow CANCELLED only when its
\* cancel_state() succeeded (workflow STARTED, current state STARTED); when
\* cancel_state() fails the failure propagates and the workflow status is
\* unchanged; after success the current instance and the workflow are
\* CANCELLED.
C10_CancelWorkflow ==
  op.name = "cancel_workflow" =>
    /\ err # "None" => status = pre.status
    /\ err = "None" =>
         /\ pre.status = "STARTED"
         /\ PreLast.status = "STARTED"
         /\ status = "CANCELLED"
         /\ Last(state_instances).status = "CANCELLED"
    /\ (pre.status # "STARTED"
        \/ (pre.state_instances # <<>> /\ PreLast.status # "STARTED")) =>
         err = "InvalidTransition"

C10_Witness ==
  /\ op.name = "cancel_workflow" /\ err = "None"
  /\ pre.status = "STARTED" /\ status = "CANCELLED"
  /\ Last(state_instances).status = "CANCELLED"

\* the aggregation rule as the claim words it
AggregateRule(statuses) ==
  IF \E i \in 1..Len(statuses) : statuses[i] = "FAILED" THEN "FAILED"
  ELSE IF \E i \in 1..Len(statuses) : statuses[i] \in {"STARTED", "UNKNOWN"}
       THEN "STARTED"
       ELSE "COMPLETED"

Statuses(containers) == [i \in 1..Len(containers) |-> containers[i].status]

IndexPermutations(n) ==
  {f \in [1..n -> 1..n] : \A i, j \in 1..n : f[i] = f[j] => i = j}

Permuted(containers, f) == [i \in 1..Len(containers) |-> containers[f[i]]]

\* C11: _get_state_status returns FAILED if any container is FAILED, else
\* STARTED if any is STARTED or UNKNOWN, else COMPLETED; every permutation of
\* the list gives the same result, and one FAILED container forces FAILED.
C11_AggregateStateStatus ==
  agg_out # "NONE" =>
    /\ agg_out = AggregateRule(Statuses(agg_in))
    /\ \A f \in IndexPermutations(Len(agg_in)) :
         get_state_status(Permuted(agg_in, f)) = agg_out
    /\ (\E i \in 1..Len(agg_in) : agg_in[i].status = "FAILED") =>
         agg_out = "FAILED"

C11_Witness ==
  /\ agg_out = "FAILED"
  /\ Len(agg_in) = 3
  /\ agg_in[1].status = "STARTED"
  /\ agg_in[2].status = "COMPLETED"
  /\ agg_in[3].status = "FAILED"

\* C12: the workflow status only changes along CREATED -> STARTED (start),
\* STARTED -> COMPLETED (next on a terminal state), STARTED -> FAILED
\* (get_status observing a FAILED state), STARTED -> CANCELLED
\* (cancel_workflow); COMPLETED, FAILED and CANCELLED are never left.
C12_WorkflowStatusEdges ==
  /\ pre.status \in {"COMPLETED", "FAILED", "CANCELLED"} => status = pre.status
  /\ status # pre.status =>
       \/ /\ pre.status = "CREATED" /\ status = "STARTED"
          /\ op.name = "start"
       \/ /\ pre.status = "STARTED" /\ status = "COMPLETED"
          /\ op.name = "next"
          /\ PreDef.end /\ PreLast.status = "COMPLETED"
       \/ /\ pre.status = "STARTED" /\ status = "FAILED"
          /\ op.name = "get_status"
          /\ Last(state_instances).status = "FAILED"
       \/ /\ pre.status = "STARTED" /\ status = "CANCELLED"
          /\ op.name = "cancel_workflow"

C12_Witness ==
  /\ pre.status = "FAILED" /\ status = "FAILED"
  /\ op.name = "get_status" /\ op.ok
  /\ PreLast.status = "STARTED"
  /\ Last(state_instances).status = "COMPLETED"

\* C13: get_status() on a workflow that is neither CREATED nor COMPLETED and
\* whose current StateInstance is not CANCELLED queries the backend once for
\* the current instance's containers and, with the backend's answer, writes
\* the aggregated status onto the current instance only and sets the
\* workflow FAILED if that status is FAILED, else leaves it unchanged.
C13_GetStatusRefresh ==
  (/\ op.name = "get_status"
   /\ pre.status \notin {"CREATED", "COMPLETED"}
   /\ pre.state_instances # <<>>
   /\ PreLast.status # "CANCELLED") =>
    /\ calls = <<[name |-> "get_containers",
                  arg  |-> ContainerIds(PreLast.containers)]>>
    /\ op.ok =>
         /\ Len(state_instances) = Len(pre.state_instances)
         /\ \A i \in 1..(Len(state_instances) - 1) :
              state_instances[i] = pre.state_instances[i]
         /\ Last(state_instances).owdl_state = PreLast.owdl_state
         /\ Last(state_instances).retry_num = PreLast.retry_num
         /\ Last(state_instances).status = AggregateRule(op.resp)
         /\ status = (IF AggregateRule(op.resp) = "FAILED" THEN "FAILED"
                      ELSE pre.status)

C13_Witness ==
  /\ op.name = "get_status" /\ op.ok
  /\ pre.status = "STARTED" /\ status = "STARTED"
  /\ Len(pre.state_instances) = 2
  /\ PreLast.status = "STARTED"
  /\ Last(state_instances).status = "COMPLETED"

\* next(args) reaches _run_state: workflow STARTED, current instance
\* COMPLETED and not terminal
NextReachesRunState ==
  /\ op.name = "next"
  /\ pre.status = "STARTED"
  /\ pre.state_instances # <<>>
  /\ PreLast.status = "COMPLETED"
  /\ ~PreDef.end

\* retry(args) reaches _run_state: workflow STARTED or FAILED, retry number
\* below retry_count, current instance FAILED or CANCELLED
RetryReachesRunState ==
  /\ op.name = "retry"
  /\ pre.status \in {"STARTED", "FAILED"}
  /\ pre.state_instances # <<>>
  /\ PreLast.retry_num < PreDef.retry_count
  /\ PreLast.status \in {"FAILED", "CANCELLED"}

NextTargetDef ==
  owdl_workflow.states[IF PreDef.next_ # "None" THEN PreDef.next_
                       ELSE PreLast.owdl_state]

\* args were given and their number differs from the base argument list's
ArgsMismatch(def) == op.args # <<>> /\ Len(op.args) # Len(def.cmd_args_list)

NextArgsMismatch == NextReachesRunState /\ ArgsMismatch(NextTargetDef)

RetryArgsMismatch == RetryReachesRunState /\ ArgsMismatch(PreDef)

\* C14 (as stated): a state execution given args of the wrong length, through
\* next(args) or retry(args), fails with InvalidArguments, makes no backend
\* start call, appends nothing and leaves the workflow status and every
\* StateInstance status as they were.
C14_ArgsMismatchNoMutation ==
  (NextArgsMismatch \/ RetryArgsMismatch) =>
    /\ err = "InvalidArguments"
    /\ NoStartCall
    /\ status = pre.status
    /\ state_instances = pre.state_instances

\* C15 (as stated): next() on a STARTED workflow whose current instance is
\* COMPLETED and not terminal makes exactly one backend start call and
\* appends exactly one STARTED record of the definition named by next_; the
\* workflow stays STARTED and the previous record COMPLETED; next() appends
\* only after the current step was observed COMPLETED.  (Read with a
\* backend start call that returns.)
C15_NextAlwaysAdvances ==
  /\ (NextReachesRunState /\ op.ok) =>
       /\ Len(calls) = 1 /\ calls[1].name = "start_containers"
       /\ Len(state_instances) = Len(pre.state_instances) + 1
       /\ Last(state_instances).owdl_state = PreDef.next_
       /\ Last(state_instances).status = "STARTED"
       /\ status = "STARTED"
       /\ SubSeq(state_instances, 1, Len(pre.state_instances))
            = pre.state_instances
  /\ (op.name = "next" /\ Len(state_instances) > Len(pre.state_instances)) =>
       (pre.status = "STARTED" /\ PreLast.status = "COMPLETED")

\* C15 (amended): such a next(), with no args or args of the matching
\* length, makes exactly one backend start call and, when that call succeeds,
\* appends exactly one STARTED record of the definition named by next_ (of
\* the current definition again when it has no next_); when the call fails
\* nothing is appended; with args of another length it fails with
\* InvalidArguments and makes no start call.  The workflow stays STARTED, the
\* earlier records stay as they were, and next() appends only after the
\* current step was observed COMPLETED.
C15_NextAdvances ==
  /\ (NextReachesRunState /\ ~ArgsMismatch(NextTargetDef)) =>
       /\ Len(calls) = 1 /\ calls[1].name = "start_containers"
       /\ status = "STARTED"
       /\ SubSeq(state_instances, 1, Len(pre.state_instances))
            = pre.state_instances
       /\ op.ok =>
            /\ err = "None"
            /\ Len(state_instances) = Len(pre.state_instances) + 1
            /\ Last(state_instances).owdl_state =
                 (IF PreDef.next_ # "None" THEN PreDef.next_
                  ELSE PreLast.owdl_state)
            /\ Last(state_instances).status = "STARTED"
       /\ ~op.ok =>
            (err = "BackendError" /\ state_instances = pre.state_instances)
  /\ NextArgsMismatch => (err = "InvalidArguments" /\ NothingChanged)
  /\ (op.name = "next" /\ Len(state_instances) > Len(pre.state_instances)) =>
       (pre.status = "STARTED" /\ PreLast.status = "COMPLETED")

C15_Witness ==
  /\ NextReachesRunState /\ op.ok /\ op.args = <<>>
  /\ PreLast.owdl_state = "A"
  /\ Len(state_instances) = Len(pre.state_instances) + 1
  /\ Last(state_instances).owdl_state = "B"

CancelStateAccepted ==
  /\ op.name = "cancel_state"
  /\ pre.status = "STARTED"
  /\ pre.state_instances # <<>>
  /\ PreLast.status = "STARTED"

\* C16: cancel_state() on a STARTED workflow whose current instance is
\* STARTED sets that instance CANCELLED, calls the backend stop once on
\* exactly its container ids, appends nothing and leaves the workflow
\* STARTED; a following retry() within the retry budget (whose backend start
\* call returns) is accepted and appends a STARTED attempt of the same
\* definition.
C16_CancelStateThenRetry ==
  /\ CancelStateAccepted =>
       /\ state_instances =
            SetLast(pre.state_instances, [PreLast EXCEPT !.status = "CANCELLED"])
       /\ calls = <<[name |-> "stop_containers",
                     arg  |-> ContainerIds(PreLast.containers)]>>
       /\ status = "STARTED"
  /\ (/\ op.name = "retry" /\ op.args = <<>> /\ op.ok
      /\ pre.status = "STARTED"
      /\ pre.state_instances # <<>>
      /\ PreLast.status = "CANCELLED"
      /\ PreLast.retry_num < PreDef.retry_count) =>
       /\ err = "None"
       /\ Len(state_instances) = Len(pre.state_instances) + 1
       /\ Last(state_instances).owdl_state = PreLast.owdl_state
       /\ Last(state_instances).status = "STARTED"

C16_Witness ==
  /\ CancelStateAccepted
  /\ Len(PreLast.containers) >= 1
  /\ PreLast.retry_num < PreDef.retry_count
  /\ Last(state_instances).status = "CANCELLED"

StartCalls == {i \in 1..Len(calls) : calls[i].name = "start_containers"}

\* C17: the sequence is append-only: its length never decreases, records
\* keep position, definition and retry number, a record that is not the last
\* one keeps its status, a successful state execution makes exactly one
\* backend start call and one append, and the length equals the number of
\* successful backend start calls.
C17_AppendOnly ==
  /\ Len(state_instances) >= Len(pre.state_instances)
  /\ Len(state_instances) <= Len(pre.state_instances) + 1
  /\ \A i \in 1..Len(pre.state_instances) :
       /\ state_instances[i].owdl_state = pre.state_instances[i].owdl_state
       /\ state_instances[i].retry_num = pre.state_instances[i].retry_num
  /\ \A i \in 1..(Len(pre.state_instances) - 1) :
       state_instances[i] = pre.state_instances[i]
  /\ Cardinality(StartCalls) <= 1
  /\ (Len(state_instances) = Len(pre.state_instances) + 1)
       <=> (Cardinality(StartCalls) = 1 /\ err = "None")
  /\ Len(state_instances) = n_starts

C17_Witness ==
  /\ op.name = "retry" /\ err = "None"
  /\ Len(pre.state_instances) = 2
  /\ Len(state_instances) = 3
  /\ n_starts = 3

\* C18: for a driver created with a new workflow definition the workflow
\* status is CREATED exactly when the sequence is empty, also after a start()
\* whose backend call failed; so get_current_state_instance() fails with
\* NoStateStarted exactly when the workflow status is CREATED.
C18_CreatedIffEmpty ==
  /\ (status = "CREATED") <=> (state_instances = <<>>)
  /\ op.name = "get_current_state_instance" =>
       ((err = "NoStateStarted") <=> (pre.status = "CREATED"))

C18_Witness ==
  /\ op.name = "get_current_state_instance"
  /\ err = "NoStateStarted"
  /\ status = "CREATED"
  /\ n_starts = 0

\* C19: when the workflow is COMPLETED the last StateInstance is COMPLETED
\* and of a terminal definition; when the workflow is CANCELLED the last
\* StateInstance is CANCELLED.
C19_TerminalStatusMatchesLastInstance ==
  /\ is_completed =>
       /\ state_instances # <<>>
       /\ Last(state_instances).status = "COMPLETED"
       /\ owdl_workflow.states[Last(state_instances).owdl_state].end
  /\ status = "CANCELLED" =>
       /\ state_instances # <<>>
       /\ Last(state_instances).status = "CANCELLED"

C19_Witness ==
  /\ op.name = "retry"
  /\ pre.status = "CANCELLED" /\ status = "CANCELLED"
  /\ PreLast.retry_num < PreDef.retry_count
  /\ Last(state_instances).status = "CANCELLED"

\* the states of a definition in chain order, from s to the terminal state
RECURSIVE ChainFrom(_, _, _)
ChainFrom(wf, s, fuel) ==
  IF wf.states[s].end \/ wf.states[s].next_ = "None" \/ fuel = 0
  THEN <<s>>
  ELSE <<s>> \o ChainFrom(wf, wf.states[s].next_, fuel - 1)

ChainOrder ==
  ChainFrom(owdl_workflow, owdl_workflow.starts_at, Cardinality(StateIds))

CompletedInChainOrder ==
  /\ status = "COMPLETED"
  /\ Len(state_instances) = Len(ChainOrder)
  /\ \A i \in 1..Len(state_instances) :
       /\ state_instances[i].owdl_state = ChainOrder[i]
       /\ state_instances[i].retry_num = 0

\* C20: for an acyclic definition whose non-terminal states all have a
\* next_, with a backend that never fails and whose containers all
\* eventually report COMPLETED, a caller that starts the workflow and keeps
\* calling get_status() and next() under weak fairness eventually has the
\* workflow COMPLETED with exactly one StateInstance per state, in chain
\* order.
C20_EventuallyCompleted == <>CompletedInChainOrder

C20_Witness ==
  /\ CompletedInChainOrder
  /\ op.name = "next"
  /\ Len(state_instances) = 2

====
